---------------------------- MODULE Spec2Model ----------------------------
(***************************************************************************)
(* A state machine of the weak-reference demo: a SelfDestructingObject     *)
(* that deletes itself from a one-shot timer callback, the MainComponent   *)
(* that wires a raw pointer and a WeakReference to two buttons, and the    *)
(* documented WeakReferenceExample.                                        *)
(*                                                                         *)
(* Everything that runs on the message thread (constructors, button        *)
(* callbacks, the timer callback, WeakReferenceExample) shares one program *)
(* counter, pc: a handler is dispatched only when pc = "idle" and runs to  *)
(* its end before the next one starts.  The passing of time (the timer     *)
(* becoming due) is the only step of another thread.                       *)
(***************************************************************************)
EXTENDS Integers, Sequences, FiniteSets, TLC

VARIABLES
    phase,       \* lifecycle of the MainComponent / the process
    pc,          \* position of the message thread
    objState,    \* per object: "none", "alive", "dying" (in its destructor), "freed"
    objName,     \* per object: Component name
    master,      \* per object: masterReference.sharedPointer (a cell or NoCell)
    cellOwner,   \* per cell: SharedPointer::owner (an object or Null)
    cellRefs,    \* per cell: reference count; 0 = not allocated
    scope,       \* the WeakReference handles that currently exist
    holder,      \* per handle: WeakReference::holder (a cell or NoCell)
    boundTo,     \* per handle: the object it was bound to (history), or Null
    rawPtr,      \* the raw pointer captured by crashButton.onClick
    timerState,  \* "none", "armed", "due", "done"
    timerMs,     \* remaining milliseconds of the pending one-shot timer, -1 if none
    checkOut,    \* last DBG line of the check button
    crashOut,    \* last DBG line of the crash button
    exOut,       \* DBG lines printed by the current/last WeakReferenceExample run
    deletedLog,  \* number of "Deleted object" lines printed
    deletes,     \* per object: number of delete-expressions executed on it
    clears,      \* per object: number of invalidations of its liveness cell
    uaf          \* code sites that dereferenced an object that was not alive

vars ==
    <<phase, pc, objState, objName, master, cellOwner, cellRefs, scope, holder,
      boundTo, rawPtr, timerState, timerMs, checkOut, crashOut, exOut,
      deletedLog, deletes, clears, uaf>>

-----------------------------------------------------------------------------
(* Bounds and constants *)

\* Size of the pool the liveness cells (SharedPointer objects) are allocated from.
NumCells ==
    2

\* Random::nextInt (3000): the exclusive upper limit of the delay.
MaxDelay ==
    3000

SDO ==
    "sdo"

WRO ==
    "wro"

Objects ==
    {SDO, WRO}

Null ==
    "null"

Cells ==
    1..NumCells

NoCell ==
    0

Handles ==
    {"timerArg", "timerFn", "timer", "checkTmp", "check", "ex"}

ObjectName ==
    "Self Destructing Object"

Garbage ==
    "<garbage>"

NoOutput ==
    <<>>

DeletedMsg ==
    <<"Object has been deleted">>

NameMsg(n) ==
    <<"Name: ", n>>


-----------------------------------------------------------------------------
(* juce::Random, juce::WeakReference, WeakReference::Master, SharedPointer *)

\* Mutant: the upper limit is included in the range of the draw.
nextInt_inclusive(maxValue) ==
    0..maxValue

\* Random::nextInt (maxValue): an integer in [0, maxValue).
nextInt(maxValue) ==
    0..(maxValue - 1)

\* The allocator hands out the lowest cell that is not allocated.
FreshCell ==
    CHOOSE c \in Cells : cellRefs[c] = 0 /\ \A d \in Cells : cellRefs[d] = 0 => c <= d


\* Mutant: every bind creates a cell of its own.
getSharedPointer_alwaysNew(o) ==
    FreshCell

\* Master::getSharedPointer: the object's cell, created on first use.
getSharedPointer(o) ==
    IF master[o] = NoCell THEN FreshCell ELSE master[o]


\* Mutant: get () hands out the address the handle was bound to, without
\* consulting the cell.
WeakGet_stale(h) ==
    boundTo[h]

\* Mutant: the holder is not tested for null, an empty holder reads as an object.
WeakGet_unchecked(h) ==
    IF holder[h] = NoCell THEN SDO ELSE cellOwner[holder[h]]

\* WeakReference::get: the cell's owner, nullptr for an empty holder.
WeakGet(h) ==
    IF holder[h] = NoCell THEN Null ELSE cellOwner[holder[h]]


\* Mutant: the test looks at the holder, not at the owner the cell records.
IsAlive_holderOnly(h) ==
    holder[h] # NoCell

\* Mutant: the test never succeeds.
IsAlive_never(h) ==
    FALSE

\* WeakReference::operator bool / wasObjectDeleted: get() != nullptr.
IsAlive(h) ==
    WeakGet(h) # Null


\* Mutant: clearPointer leaves the owner in place.
clearPointer_skip(c) ==
    cellOwner

\* SharedPointer::clearPointer: owner = nullptr.
clearPointer(c) ==
    [cellOwner EXCEPT ![c] = Null]

\* Reference count of cell c after one more holder took it.
incRef(c) ==
    [cellRefs EXCEPT ![c] = @ + 1]

\* Mutant: the first holder that lets go frees the cell.
decRef_free(c) ==
    [cellRefs EXCEPT ![c] = 0]

\* Reference count of cell c after one holder released it (0 frees the cell).
decRef(c) ==
    [cellRefs EXCEPT ![c] = @ - 1]

\* WeakReference (ObjectType*): bind handle h to object o (nullptr: empty holder).
WeakBind(h, o) ==
    /\ scope' = scope \cup {h}
    /\ boundTo' = [boundTo EXCEPT ![h] = o]
    /\ IF o = Null
       THEN /\ holder' = [holder EXCEPT ![h] = NoCell]
            /\ UNCHANGED <<master, cellOwner, cellRefs>>
       ELSE LET c == getSharedPointer(o)
                created == c # master[o]
            IN  /\ holder' = [holder EXCEPT ![h] = c]
                /\ master' = [master EXCEPT ![o] = c]
                /\ cellOwner' = IF created THEN [cellOwner EXCEPT ![c] = o] ELSE cellOwner
                /\ cellRefs' = [cellRefs EXCEPT ![c] = (IF created THEN 1 ELSE @) + 1]


\* Mutant: the copy constructor does not take the source's holder.
copiedHolder_empty(src) ==
    NoCell

\* The holder a copy-constructed WeakReference takes from its source.
copiedHolder(src) ==
    holder[src]

\* WeakReference (const WeakReference&): h becomes a copy of src.
WeakCopy(h, src) ==
    LET c == copiedHolder(src)
    IN  /\ scope' = scope \cup {h}
        /\ boundTo' = [boundTo EXCEPT ![h] = boundTo[src]]
        /\ holder' = [holder EXCEPT ![h] = c]
        /\ cellRefs' = IF c = NoCell THEN cellRefs ELSE incRef(c)
        /\ UNCHANGED <<master, cellOwner>>

\* WeakReference (WeakReference&&): h takes the holder of src, src is left empty.
WeakMove(h, src) ==
    /\ scope' = scope \cup {h}
    /\ boundTo' = [boundTo EXCEPT ![h] = boundTo[src], ![src] = Null]
    /\ holder' = [holder EXCEPT ![h] = holder[src], ![src] = NoCell]
    /\ UNCHANGED <<master, cellOwner, cellRefs>>

\* Mutant: a handle that goes away invalidates the cell it referenced.
WeakDestroy_clears(h) ==
    /\ scope' = scope \ {h}
    /\ boundTo' = [boundTo EXCEPT ![h] = Null]
    /\ holder' = [holder EXCEPT ![h] = NoCell]
    /\ cellRefs' = IF holder[h] = NoCell THEN cellRefs ELSE decRef(holder[h])
    /\ cellOwner' = IF holder[h] = NoCell THEN cellOwner ELSE clearPointer(holder[h])
    /\ UNCHANGED master

\* ~WeakReference: the handle releases its cell and ceases to exist.
WeakDestroy(h) ==
    /\ scope' = scope \ {h}
    /\ boundTo' = [boundTo EXCEPT ![h] = Null]
    /\ holder' = [holder EXCEPT ![h] = NoCell]
    /\ cellRefs' = IF holder[h] = NoCell THEN cellRefs ELSE decRef(holder[h])
    /\ UNCHANGED <<master, cellOwner>>


\* Mutant: the destructor of the master does not call clear ().
MasterDestroy_noClear(o) ==
    LET c == master[o]
    IN  /\ master' = [master EXCEPT ![o] = NoCell]
        /\ cellRefs' = IF c = NoCell THEN cellRefs ELSE decRef(c)
        /\ UNCHANGED <<cellOwner, clears>>

\* ~WeakRefMaster of object o: clear() invalidates the cell, then the master's own
\* reference to the cell is released.
MasterDestroy(o) ==
    LET c == master[o]
    IN  /\ master' = [master EXCEPT ![o] = NoCell]
        /\ IF c = NoCell
           THEN UNCHANGED <<cellOwner, cellRefs, clears>>
           ELSE /\ cellOwner' = clearPointer(c)
                /\ cellRefs' = decRef(c)
                /\ clears' = [clears EXCEPT ![o] = @ + 1]

\* The object whose destructor is running.
Dying ==
    CHOOSE o \in Objects : objState[o] = "dying"

\* What a read of the name through pointer o can print: the name of a live object;
\* for a destroyed or null object the behaviour is undefined (the stale name,
\* garbage, or a crash).
ReadOutcomes(o) ==
    IF o # Null /\ objState[o] = "alive"
    THEN {[msg |-> NameMsg(objName[o]), crash |-> FALSE]}
    ELSE {[msg |-> NameMsg(Garbage), crash |-> FALSE], [msg |-> NoOutput, crash |-> TRUE]}
         \cup (IF o = Null THEN {} ELSE {[msg |-> NameMsg(objName[o]), crash |-> FALSE]})

\* The sites that dereferenced a dead object, after site dereferences o.
Deref(site, o) ==
    IF o # Null /\ objState[o] = "alive" THEN uaf ELSE uaf \cup {site}

weakVars ==
    <<master, cellOwner, cellRefs, scope, holder, boundTo>>

objVars ==
    <<objState, objName, deletes, clears>>

timerVars ==
    <<timerState, timerMs>>

outVars ==
    <<checkOut, crashOut, exOut, deletedLog>>

-----------------------------------------------------------------------------
Init ==
    /\ phase = "boot"
    /\ pc = "idle"
    /\ objState = [o \in Objects |-> "none"]
    /\ objName = [o \in Objects |-> ""]
    /\ master = [o \in Objects |-> NoCell]
    /\ cellOwner = [c \in Cells |-> Null]
    /\ cellRefs = [c \in Cells |-> 0]
    /\ scope = {}
    /\ holder = [h \in Handles |-> NoCell]
    /\ boundTo = [h \in Handles |-> Null]
    /\ rawPtr = Null
    /\ timerState = "none"
    /\ timerMs = -1
    /\ checkOut = NoOutput
    /\ crashOut = NoOutput
    /\ exOut = {}
    /\ deletedLog = 0
    /\ deletes = [o \in Objects |-> 0]
    /\ clears = [o \in Objects |-> 0]
    /\ uaf = {}

-----------------------------------------------------------------------------
(* Object lifetime: new, and the steps of a delete-expression *)

\* new T: the object exists, with Component's default (empty) name.
NewObject(o) ==
    /\ objState' = [objState EXCEPT ![o] = "alive"]
    /\ objName' = [objName EXCEPT ![o] = ""]
    /\ deletes' = [deletes EXCEPT ![o] = 0]
    /\ clears' = [clears EXCEPT ![o] = 0]

\* delete p: the destructor of o is entered (deleting a dead object is undefined).
DeleteBegin(site, o) ==
    /\ objState' = IF objState[o] = "alive" THEN [objState EXCEPT ![o] = "dying"] ELSE objState
    /\ deletes' = [deletes EXCEPT ![o] = @ + 1]
    /\ uaf' = Deref(site, o)
    /\ UNCHANGED objName

\* End of the destructor: the base class is destroyed and the memory released.
Release(o) ==
    /\ objState' = [objState EXCEPT ![o] = "freed"]
    /\ UNCHANGED <<objName, deletes, clears>>

-----------------------------------------------------------------------------
(* MainComponent::MainComponent, with SelfDestructingObject's constructor inline *)

\* MainComponent.cpp:20, the allocation and base construction of `new SelfDestructingObject`
Main_new ==
    /\ phase = "boot"
    /\ pc = "idle"
    /\ phase' = "constructing"
    /\ pc' = "sdo_bind"
    /\ NewObject(SDO)
    /\ UNCHANGED <<weakVars, rawPtr, timerVars, outVars, uaf>>

\* SelfDestructingObject.h:10, [weak = WeakReference (this)]
SDO_bind ==
    /\ pc = "sdo_bind"
    /\ pc' = "sdo_convert"
    /\ WeakBind("timerArg", SDO)
    /\ UNCHANGED <<phase, objVars, rawPtr, timerVars, outVars, uaf>>

\* SelfDestructingObject.h:10-15, the closure temporary is converted to the
\* std::function<void()> parameter of callAfterDelay: the closure, and with it
\* the captured handle, is move-constructed into the parameter and the
\* temporary's handle is left empty.
SDO_convert ==
    /\ pc = "sdo_convert"
    /\ pc' = "sdo_schedule"
    /\ WeakMove("timerFn", "timerArg")
    /\ UNCHANGED <<phase, objVars, rawPtr, timerVars, outVars, uaf>>

\* SelfDestructingObject.h:10, Timer::callAfterDelay (nextInt (3000), f): the
\* one-shot timer stores the callback and is started with the delay. The JUCE
\* release the program is built against decides how the parameter reaches the
\* timer: by std::move (the parameter's handle is left empty) or by copy (the
\* parameter keeps its handle until it is destroyed).
SDO_callAfterDelay ==
    /\ pc = "sdo_schedule"
    /\ pc' = "sdo_ret"
    /\ \E d \in nextInt(MaxDelay) :
          /\ timerMs' = d
          /\ timerState' = "armed"
    /\ \/ WeakMove("timer", "timerFn")
       \/ WeakCopy("timer", "timerFn")
    /\ UNCHANGED <<phase, objVars, rawPtr, outVars, uaf>>

\* SelfDestructingObject.h:15, the std::function parameter of callAfterDelay is
\* destroyed.
SDO_paramEnd ==
    /\ pc = "sdo_ret"
    /\ pc' = "sdo_tmp"
    /\ WeakDestroy("timerFn")
    /\ UNCHANGED <<phase, objVars, rawPtr, timerVars, outVars, uaf>>

\* SelfDestructingObject.h:15-16, the moved-from closure temporary is destroyed
\* at the end of the full expression and the constructor returns.
SDO_return ==
    /\ pc = "sdo_tmp"
    /\ pc' = "m_setName"
    /\ WeakDestroy("timerArg")
    /\ UNCHANGED <<phase, objVars, rawPtr, timerVars, outVars, uaf>>

\* MainComponent.cpp:21, obj->setName ("Self Destructing Object")
Main_setName ==
    /\ pc = "m_setName"
    /\ pc' = "m_crash"
    /\ objName' = [objName EXCEPT ![SDO] = ObjectName]
    /\ uaf' = Deref("ctor", SDO)
    /\ UNCHANGED <<phase, objState, deletes, clears, weakVars, rawPtr, timerVars, outVars>>

\* MainComponent.cpp:26, crashButton.onClick = [obj] ...
Main_wireCrash ==
    /\ pc = "m_crash"
    /\ pc' = "m_check_bind"
    /\ rawPtr' = SDO
    /\ UNCHANGED <<phase, objVars, weakVars, timerVars, outVars, uaf>>

\* MainComponent.cpp:34, [weak = WeakReference<SelfDestructingObject> (obj)]
Main_bindCheck ==
    /\ pc = "m_check_bind"
    /\ pc' = "m_check_store"
    /\ WeakBind("checkTmp", SDO)
    /\ UNCHANGED <<phase, objVars, rawPtr, timerVars, outVars, uaf>>

\* MainComponent.cpp:34, checkButton.onClick = <closure>: the closure is moved
\* into the stored callback.
Main_storeCheck ==
    /\ pc = "m_check_store"
    /\ pc' = "m_ctor_end"
    /\ WeakMove("check", "checkTmp")
    /\ UNCHANGED <<phase, objVars, rawPtr, timerVars, outVars, uaf>>

\* MainComponent.cpp:39-40, the closure temporary is destroyed, the constructor
\* returns and the component is shown.
Main_ctorEnd ==
    /\ pc = "m_ctor_end"
    /\ pc' = "idle"
    /\ phase' = "shown"
    /\ WeakDestroy("checkTmp")
    /\ UNCHANGED <<objVars, rawPtr, timerVars, outVars, uaf>>

\* Mutant: destroying the MainComponent cancels the pending timer.
Main_destroy_cancels ==
    /\ phase = "shown"
    /\ pc = "idle"
    /\ phase' = "closed"
    /\ rawPtr' = Null
    /\ WeakDestroy("check")
    /\ timerState' = IF timerState = "armed" THEN "none" ELSE timerState
    /\ timerMs' = IF timerState = "armed" THEN -1 ELSE timerMs
    /\ UNCHANGED <<pc, objVars, outVars, uaf>>

\* MainComponent::~MainComponent: the buttons and their callbacks are destroyed.
Main_destroy ==
    /\ phase = "shown"
    /\ pc = "idle"
    /\ phase' = "closed"
    /\ rawPtr' = Null
    /\ WeakDestroy("check")
    /\ UNCHANGED <<pc, objVars, timerVars, outVars, uaf>>

-----------------------------------------------------------------------------
(* The one-shot timer *)


\* Mutant: the timer never becomes due.
TimerDue_never ==
    FALSE

\* The timer's delay has passed.
TimerDue ==
    timerState = "armed" /\ timerMs = 0


\* Mutant: once the timer is due, a callback is run wherever the message thread is.
CanDispatch_preempt ==
    phase # "crashed" /\ (pc = "idle" \/ (timerState = "armed" /\ timerMs = 0))

\* The message thread is between two callbacks, so it can dispatch the next one.
CanDispatch ==
    pc = "idle" /\ phase # "crashed"

\* Time passes on the timer thread until the pending timer is due.
Elapse ==
    /\ timerState = "armed"
    /\ timerMs > 0
    /\ phase # "crashed"
    /\ timerMs' = 0
    /\ UNCHANGED <<phase, pc, objVars, weakVars, rawPtr, timerState, outVars, uaf>>

\* Mutant: the liveness test of the callback is inverted, so a run that finds the
\* instance alive skips the delete and goes straight to the diagnostic.
Timer_fire_inverted ==
    /\ CanDispatch
    /\ TimerDue
    /\ timerState' = "firing"
    /\ pc' = IF IsAlive("timer") THEN "t_log" ELSE "t_delete"
    /\ UNCHANGED <<phase, objVars, weakVars, rawPtr, timerMs, outVars, uaf>>

\* Mutant: the timer callback runs as soon as the delay has expired, whatever
\* the message thread is executing.
Timer_fire_direct ==
    /\ phase # "crashed"
    /\ TimerDue
    /\ timerState' = "firing"
    /\ pc' = IF IsAlive("timer") THEN "t_delete" ELSE "t_log"
    /\ UNCHANGED <<phase, objVars, weakVars, rawPtr, timerMs, outVars, uaf>>

\* SelfDestructingObject.h:11, the callback is dispatched: if (weak)
Timer_fire ==
    /\ CanDispatch
    /\ TimerDue
    /\ timerState' = "firing"
    /\ pc' = IF IsAlive("timer") THEN "t_delete" ELSE "t_log"
    /\ UNCHANGED <<phase, objVars, weakVars, rawPtr, timerMs, outVars, uaf>>

\* SelfDestructingObject.h:12, delete weak.get (): the destructor is entered
Timer_delete ==
    /\ pc = "t_delete"
    /\ pc' = "t_clear"
    /\ DeleteBegin("timer", WeakGet("timer"))
    /\ UNCHANGED <<phase, clears, weakVars, rawPtr, timerVars, outVars>>

\* SelfDestructingObject.h:20, the member masterReference is destroyed
Timer_clear ==
    /\ pc = "t_clear"
    /\ pc' = "t_free"
    /\ MasterDestroy(SDO)
    /\ UNCHANGED <<phase, objState, objName, deletes, scope, holder, boundTo, rawPtr,
                   timerVars, outVars, uaf>>

\* Mutant: releasing the instance also resets the raw pointer the crash button holds.
Timer_free_nullsRaw ==
    /\ pc = "t_free"
    /\ pc' = "t_log"
    /\ Release(SDO)
    /\ rawPtr' = Null
    /\ UNCHANGED <<phase, weakVars, timerVars, outVars, uaf>>

\* SelfDestructingObject.h:12, ~Component and operator delete
Timer_free ==
    /\ pc = "t_free"
    /\ pc' = "t_log"
    /\ Release(SDO)
    /\ UNCHANGED <<phase, weakVars, rawPtr, timerVars, outVars, uaf>>

\* SelfDestructingObject.h:14, DBG ("Deleted object")
Timer_log ==
    /\ pc = "t_log"
    /\ pc' = "t_end"
    /\ deletedLog' = deletedLog + 1
    /\ UNCHANGED <<phase, objVars, weakVars, rawPtr, timerVars, checkOut, crashOut, exOut, uaf>>

\* SelfDestructingObject.h:15, the callback returns and the one-shot timer
\* destroys itself together with the stored callback.
Timer_end ==
    /\ pc = "t_end"
    /\ pc' = "idle"
    /\ timerState' = "done"
    /\ timerMs' = -1
    /\ WeakDestroy("timer")
    /\ UNCHANGED <<phase, objVars, rawPtr, outVars, uaf>>

-----------------------------------------------------------------------------
(* The buttons *)

\* MainComponent.cpp:35, checkButton.onClick: if (weak)
Check_click ==
    /\ CanDispatch
    /\ phase = "shown"
    /\ pc' = IF IsAlive("check") THEN "k_read" ELSE "k_absent"
    /\ UNCHANGED <<phase, objVars, weakVars, rawPtr, timerVars, outVars, uaf>>

\* MainComponent.cpp:36, DBG ("Name: " << weak->getName ())
Check_read ==
    /\ pc = "k_read"
    /\ \E r \in ReadOutcomes(WeakGet("check")) :
          /\ checkOut' = r.msg
          /\ phase' = IF r.crash THEN "crashed" ELSE phase
    /\ pc' = "idle"
    /\ uaf' = Deref("check", WeakGet("check"))
    /\ UNCHANGED <<objVars, weakVars, rawPtr, timerVars, crashOut, exOut, deletedLog>>

\* MainComponent.cpp:38, DBG ("Object has been deleted")
Check_absent ==
    /\ pc = "k_absent"
    /\ pc' = "idle"
    /\ checkOut' = DeletedMsg
    /\ UNCHANGED <<phase, objVars, weakVars, rawPtr, timerVars, crashOut, exOut, deletedLog, uaf>>

\* MainComponent.cpp:26, crashButton.onClick is dispatched
Crash_click ==
    /\ CanDispatch
    /\ phase = "shown"
    /\ pc' = "x_body"
    /\ UNCHANGED <<phase, objVars, weakVars, rawPtr, timerVars, outVars, uaf>>

\* MainComponent.cpp:27-30, if (obj) DBG ("Name: " << obj->getName ());
\* else DBG ("Object has been deleted")
Crash_body ==
    /\ pc = "x_body"
    /\ pc' = "idle"
    /\ IF rawPtr # Null
       THEN /\ \E r \in ReadOutcomes(rawPtr) :
                  /\ crashOut' = r.msg
                  /\ phase' = IF r.crash THEN "crashed" ELSE phase
            /\ uaf' = Deref("crash", rawPtr)
       ELSE /\ crashOut' = DeletedMsg
            /\ UNCHANGED <<phase, uaf>>
    /\ UNCHANGED <<objVars, weakVars, rawPtr, timerVars, checkOut, exOut, deletedLog>>


\* Mutant: the delete button deletes the object.
Delete_click_deletes ==
    /\ pc = "idle" /\ phase = "shown"
    /\ objState[SDO] = "alive"
    /\ Release(SDO)
    /\ UNCHANGED <<phase, pc, weakVars, rawPtr, timerVars, outVars, uaf>>

\* MainComponent.h:201, deleteButton has no onClick: a click runs nothing.
Delete_click ==
    /\ CanDispatch
    /\ phase = "shown"
    /\ UNCHANGED vars

-----------------------------------------------------------------------------
(* WeakReferenceExample, MainComponent.h:155-174.  Nothing in the repository  *)
(* calls this function; the model lets the message thread call it, any number *)
(* of times, whenever no MainComponent exists (before it is constructed and   *)
(* after it is destroyed, while the timer may still be pending).              *)

\* MainComponent.h:157, WeakReference<WeakReferenceableObject> weak;
Ex_call ==
    /\ CanDispatch
    /\ phase \in {"boot", "closed"}
    /\ pc' = "e_make"
    /\ exOut' = {}
    /\ WeakBind("ex", Null)
    /\ UNCHANGED <<phase, objVars, rawPtr, timerVars, checkOut, crashOut, deletedLog, uaf>>

\* MainComponent.h:161, obj = std::make_unique<WeakReferenceableObject> ()
Ex_make ==
    /\ pc = "e_make"
    /\ pc' = "e_bind"
    /\ NewObject(WRO)
    /\ UNCHANGED <<phase, weakVars, rawPtr, timerVars, outVars, uaf>>

\* MainComponent.h:164, weak = obj.get ()
Ex_bind ==
    /\ pc = "e_bind"
    /\ pc' = "e_first"
    /\ WeakBind("ex", WRO)
    /\ UNCHANGED <<phase, objVars, rawPtr, timerVars, outVars, uaf>>

\* MainComponent.h:166-167, if (weak) weak->printSomething ("Hello")
Ex_first ==
    /\ pc = "e_first"
    /\ pc' = "e_scope"
    /\ IF IsAlive("ex")
       THEN /\ exOut' = exOut \cup {"Hello"}
            /\ uaf' = Deref("ex", WeakGet("ex"))
       ELSE UNCHANGED <<exOut, uaf>>
    /\ UNCHANGED <<phase, objVars, weakVars, rawPtr, timerVars, checkOut, crashOut, deletedLog>>

\* Mutant: the object's destructor does not destroy masterReference: the memory
\* is released with the cell still naming the object.
Ex_scopeEnd_noMaster ==
    /\ pc = "e_scope"
    /\ pc' = "e_free"
    /\ DeleteBegin("ex", WRO)
    /\ UNCHANGED <<phase, clears, weakVars, rawPtr, timerVars, outVars>>

\* MainComponent.h:170, the unique_ptr goes out of scope: delete obj
Ex_scopeEnd ==
    /\ pc = "e_scope"
    /\ pc' = "e_clear"
    /\ DeleteBegin("ex", WRO)
    /\ UNCHANGED <<phase, clears, weakVars, rawPtr, timerVars, outVars>>

\* MainComponent.h:151, the member masterReference is destroyed
Ex_clear ==
    /\ pc = "e_clear"
    /\ pc' = "e_free"
    /\ MasterDestroy(WRO)
    /\ UNCHANGED <<phase, objState, objName, deletes, scope, holder, boundTo, rawPtr,
                   timerVars, outVars, uaf>>

\* MainComponent.h:170, operator delete
Ex_free ==
    /\ pc = "e_free"
    /\ pc' = "e_second"
    /\ Release(WRO)
    /\ UNCHANGED <<phase, weakVars, rawPtr, timerVars, outVars, uaf>>

\* MainComponent.h:172-173, if (weak) weak->printSomething ("This will not be printed")
Ex_second ==
    /\ pc = "e_second"
    /\ pc' = "e_ret"
    /\ IF IsAlive("ex")
       THEN /\ exOut' = exOut \cup {"This will not be printed"}
            /\ uaf' = Deref("ex", WeakGet("ex"))
       ELSE UNCHANGED <<exOut, uaf>>
    /\ UNCHANGED <<phase, objVars, weakVars, rawPtr, timerVars, checkOut, crashOut, deletedLog>>

\* MainComponent.h:174, the function returns: weak is destroyed
Ex_return ==
    /\ pc = "e_ret"
    /\ pc' = "idle"
    /\ WeakDestroy("ex")
    /\ UNCHANGED <<phase, objVars, rawPtr, timerVars, outVars, uaf>>

-----------------------------------------------------------------------------
Next ==
    \/ Main_new
    \/ SDO_bind
    \/ SDO_convert
    \/ SDO_callAfterDelay
    \/ SDO_paramEnd
    \/ SDO_return
    \/ Main_setName
    \/ Main_wireCrash
    \/ Main_bindCheck
    \/ Main_storeCheck
    \/ Main_ctorEnd
    \/ Main_destroy
    \/ Elapse
    \/ Timer_fire
    \/ Timer_delete
    \/ Timer_clear
    \/ Timer_free
    \/ Timer_log
    \/ Timer_end
    \/ Check_click
    \/ Check_read
    \/ Check_absent
    \/ Crash_click
    \/ Crash_body
    \/ Delete_click
    \/ Ex_call
    \/ Ex_make
    \/ Ex_bind
    \/ Ex_first
    \/ Ex_scopeEnd
    \/ Ex_clear
    \/ Ex_free
    \/ Ex_second
    \/ Ex_return

Spec ==
    Init /\ [][Next]_vars

\* A step inside a callback or constructor that has been entered.
HandlerStep ==
    \/ SDO_bind \/ SDO_convert \/ SDO_callAfterDelay \/ SDO_paramEnd \/ SDO_return
    \/ Main_setName \/ Main_wireCrash \/ Main_bindCheck \/ Main_storeCheck \/ Main_ctorEnd
    \/ Timer_delete \/ Timer_clear \/ Timer_free \/ Timer_log \/ Timer_end
    \/ Check_read \/ Check_absent \/ Crash_body
    \/ Ex_make \/ Ex_bind \/ Ex_first \/ Ex_scopeEnd \/ Ex_clear \/ Ex_free
    \/ Ex_second \/ Ex_return

\* The scheduler's guarantees: time passes, the message thread finishes the
\* callback it is in, and a due timer callback, whose message waits in the
\* first-in first-out message queue, is eventually dispatched even though other
\* callbacks keep being dispatched in between.
FairSpec ==
    /\ Spec
    /\ WF_vars(Elapse)
    /\ WF_vars(HandlerStep)
    /\ SF_vars(Timer_fire)

-----------------------------------------------------------------------------
(* Claims *)

\* The handles that exist and were bound to object o.
HandlesOf(o) ==
    {h \in scope : boundTo[h] = o}

\* The positions of the message thread inside a destructor, between its entry and
\* the destruction of the member masterReference.
InDestructorHead ==
    pc \in {"t_clear", "e_clear"}

\* C1: the weak-handle access path (if (weak) ... weak->getName ()) never reads the
\* name of an instance that is invalidated or released: the check button never
\* dereferences a dead object, the read it is about to do targets a live,
\* not-invalidated instance, it never prints garbage, and whenever a callback can
\* test a handle, a handle that reports alive resolves to a live instance.
C1_ResolveOnlyWhileAlive ==
    /\ "check" \notin uaf
    /\ checkOut # NameMsg(Garbage)
    /\ pc = "k_read" =>
          /\ WeakGet("check") = SDO
          /\ objState[SDO] = "alive"
          /\ clears[SDO] = 0
    /\ \A h \in scope :
          (IsAlive(h) /\ ~InDestructorHead) =>
              (WeakGet(h) \in Objects /\ objState[WeakGet(h)] = "alive")

\* C1 witness: a click read the name while the instance lived, and a click after
\* the destruction found the handle empty.
C1_Witness ==
    /\ pc = "k_absent"
    /\ checkOut = NameMsg(ObjectName)
    /\ objState[SDO] = "freed"

\* C2, state part: once an instance is released, every existing handle that was
\* bound to it reports not-alive.
C2_DeadHandles ==
    \A o \in Objects :
        objState[o] = "freed" => \A h \in HandlesOf(o) : ~IsAlive(h)

\* C2, step part: a bound handle that reports not-alive never reports alive
\* again while it stays bound to the same instance.
C2_Step ==
    \A h \in Handles :
        (h \in scope /\ boundTo[h] # Null /\ ~IsAlive(h)
            /\ h \in scope' /\ boundTo'[h] = boundTo[h])
        => ~IsAlive(h)'

\* C2: after destruction has completed every weak handle bound to the instance
\* reports not-alive, in that state and in every later one (no resurrection).
C2_NoResurrection ==
    [](C2_DeadHandles) /\ [][C2_Step]_vars

\* C2 witness: the instance is released while the timer's handle and the check
\* button's handle both exist, and both report not-alive.
C2_Witness ==
    /\ objState[SDO] = "freed"
    /\ HandlesOf(SDO) = {"timer", "check"}
    /\ ~IsAlive("timer")
    /\ ~IsAlive("check")

\* C3: during and right after construction every handle bound to the new instance
\* reports alive and resolves to it, whatever delay was drawn: the scheduled
\* action has not started when the constructors return, even if it is due.
C3_AliveAfterConstruction ==
    /\ phase = "constructing" =>
          /\ timerState \in {"none", "armed"}
          /\ objState[SDO] = "alive"
          /\ \A h \in HandlesOf(SDO) : IsAlive(h) /\ WeakGet(h) = SDO
    /\ (phase = "constructing" /\ pc \notin {"sdo_bind", "sdo_convert", "sdo_schedule"}) =>
          "timer" \in HandlesOf(SDO)
    /\ (pc = "m_ctor_end" \/ phase = "shown") => "check" \in HandlesOf(SDO)
    /\ (phase = "shown" /\ timerState = "armed") =>
          \A h \in HandlesOf(SDO) : IsAlive(h) /\ WeakGet(h) = SDO

\* C3 witness: the timer is already due (a delay of 0) when the MainComponent
\* constructor is about to return, and the check button's handle reports alive.
C3_Witness ==
    /\ pc = "m_ctor_end"
    /\ TimerDue
    /\ IsAlive("check")

\* C4: an instance is deleted at most once and its cell invalidated at most once,
\* and no delete ever hits a dead object; when the scheduled action has run both
\* counts are exactly one, however many handles were bound.
C4_DestroyedOnce ==
    /\ \A o \in Objects : deletes[o] <= 1 /\ clears[o] <= 1
    /\ "timer" \notin uaf
    /\ timerState = "done" =>
          /\ deletes[SDO] = 1
          /\ clears[SDO] = 1
          /\ objState[SDO] = "freed"

\* C4 witness: the action has run with two handles bound to the instance.
C4_Witness ==
    /\ pc = "t_end"
    /\ HandlesOf(SDO) = {"timer", "check"}
    /\ deletes[SDO] = 1
    /\ clears[SDO] = 1

\* C5: invalidation precedes release: a released instance is the owner of no cell
\* and has been invalidated, and once an instance is invalidated every handle
\* bound to it observes not-alive.
C5_InvalidateBeforeRelease ==
    \A o \in Objects :
        /\ objState[o] = "freed" =>
              /\ clears[o] = 1
              /\ master[o] = NoCell
              /\ \A c \in Cells : cellOwner[c] # o
        /\ clears[o] >= 1 =>
              /\ objState[o] \in {"dying", "freed"}
              /\ \A h \in HandlesOf(o) : ~IsAlive(h)

\* C5 witness: the destructor has invalidated the cell and has not yet released
\* the memory; the check button's handle already reports not-alive.
C5_Witness ==
    /\ pc = "t_free"
    /\ objState[SDO] = "dying"
    /\ clears[SDO] = 1
    /\ "check" \in scope
    /\ ~IsAlive("check")

\* C6: under the scheduler's fairness every constructed instance is eventually
\* destroyed by its scheduled action; the action runs once and stays done, the
\* invalidation has happened inside it, and from then on a click on the check
\* button takes the "Object has been deleted" branch.
C6_EventuallyDestroyed ==
    /\ (objState[SDO] = "alive") ~>
          (timerState = "done" /\ objState[SDO] = "freed" /\ deletedLog = 1)
    /\ [](deletedLog <= 1)
    /\ [](timerState = "done" => (clears[SDO] = 1 /\ pc # "k_read"))
    /\ [][timerState = "done" => timerState' = "done"]_vars
    /\ [][(timerState = "done" /\ pc = "k_absent") => checkOut' = DeletedMsg]_vars

\* C6 witness: the action has run, and a later click on the check button has
\* printed "Object has been deleted".
C6_Witness ==
    /\ timerState = "done"
    /\ objState[SDO] = "freed"
    /\ checkOut = DeletedMsg
    /\ pc = "idle"

\* C7: only the scheduled action destroys the instance or invalidates its cell:
\* every step that moves the instance out of "alive", invalidates its cell or
\* releases it is a step of the timer callback.
C7_Step ==
    /\ (objState[SDO] = "alive" /\ objState'[SDO] # "alive") =>
          (pc = "t_delete" /\ timerState = "firing")
    /\ (objState[SDO] # "freed" /\ objState'[SDO] = "freed") =>
          (pc = "t_free" /\ timerState = "firing")
    /\ (clears'[SDO] > clears[SDO]) => (pc = "t_clear" /\ timerState = "firing")
    /\ (master[SDO] # NoCell /\ cellOwner'[master[SDO]] # cellOwner[master[SDO]]) =>
          (pc = "t_clear" /\ timerState = "firing")
    /\ deletes'[SDO] > deletes[SDO] => (pc = "t_delete" /\ timerState = "firing")

\* C7 (see C7_Step), over every step of every behaviour.
C7_OnlyTimerDestroys ==
    [][C7_Step]_vars

\* C7 witness: both wired buttons have been clicked and the MainComponent has been
\* destroyed, and the instance is still alive with its timer pending.
C7_Witness ==
    /\ phase = "closed"
    /\ checkOut = NameMsg(ObjectName)
    /\ crashOut = NameMsg(ObjectName)
    /\ objState[SDO] = "alive"
    /\ IsAlive("timer")
    /\ timerState = "armed"

\* C8: handles bound to the same instance, a handle and its copy among them,
\* reference the same cell and agree on isAlive () in every state.
C8_CopiesAgree ==
    \A h1, h2 \in scope :
        (boundTo[h1] # Null /\ boundTo[h1] = boundTo[h2]) =>
            /\ holder[h1] = holder[h2]
            /\ holder[h1] # NoCell
            /\ IsAlive(h1) = IsAlive(h2)

\* C8 witness: callAfterDelay stored a copy of its parameter: the parameter's
\* handle and the copy in the timer both exist and reference the same cell.
C8_Witness ==
    /\ pc = "sdo_ret"
    /\ {"timerFn", "timer"} \subseteq scope
    /\ boundTo["timer"] = SDO
    /\ IsAlive("timerFn")
    /\ holder["timerFn"] = holder["timer"]

\* C9: a handle that exists and is bound to no instance (default-constructed, or
\* bound to null) has an empty holder and reports not-alive, whatever instances
\* exist or have been destroyed.
C9_NullHandleNeverAlive ==
    \A h \in scope :
        boundTo[h] = Null => (holder[h] = NoCell /\ ~IsAlive(h) /\ WeakGet(h) = Null)

\* C9 witness: the example's handle is still unbound while its object has been
\* created and the self-destructing instance is alive.
C9_Witness ==
    /\ pc = "e_bind"
    /\ "ex" \in scope
    /\ boundTo["ex"] = Null
    /\ objState[WRO] = "alive"
    /\ objState[SDO] = "alive"
    /\ IsAlive("timer")

\* C10: end to end. With the label set, a resolve through the check button's
\* handle before destruction yields exactly "Self Destructing Object"; after the
\* destruction protocol the same handle, and the independently bound handle of
\* the timer, resolve to absent.
C10_EndToEnd ==
    /\ checkOut \in {NoOutput, NameMsg(ObjectName), DeletedMsg}
    /\ pc = "k_read" =>
          /\ objState[SDO] = "alive"
          /\ ReadOutcomes(WeakGet("check")) = {[msg |-> NameMsg(ObjectName), crash |-> FALSE]}
    /\ pc = "k_absent" => (objState[SDO] = "freed" /\ WeakGet("check") = Null)
    /\ (phase = "shown" /\ objState[SDO] = "alive") => WeakGet("check") = SDO
    /\ (clears[SDO] >= 1 \/ objState[SDO] = "freed") =>
          \A h \in {"check", "timer"} \cap scope : WeakGet(h) = Null

\* C10 witness: the label was read through the check button's handle, then the
\* instance was destroyed, and both handles now resolve to absent.
C10_Witness ==
    /\ pc = "t_log"
    /\ checkOut = NameMsg(ObjectName)
    /\ {"check", "timer"} \subseteq scope
    /\ WeakGet("check") = Null
    /\ WeakGet("timer") = Null

\* C11: the raw pointer the crash button captured is not invalidated: while the
\* MainComponent is shown it keeps the instance's address, also after the
\* instance is released, so its null test passes and the "Object has been
\* deleted" branch is never taken; a click while the instance lives reads its
\* label, and only a click after the release dereferences a dead instance (the
\* undefined behaviour the crash, the garbage and the stale name stand for).
C11_RawPointerDangles ==
    /\ phase = "shown" => rawPtr = SDO
    /\ crashOut # DeletedMsg
    /\ (pc = "x_body" /\ objState[SDO] = "alive") =>
          ReadOutcomes(rawPtr) = {[msg |-> NameMsg(ObjectName), crash |-> FALSE]}
    /\ (pc = "x_body" /\ objState[SDO] # "alive") =>
          /\ objState[SDO] = "freed"
          /\ [msg |-> NoOutput, crash |-> TRUE] \in ReadOutcomes(rawPtr)
          /\ Deref("crash", rawPtr) = uaf \cup {"crash"}
    /\ "crash" \in uaf => objState[SDO] = "freed"
    /\ crashOut = NameMsg(Garbage) => "crash" \in uaf
    /\ phase = "crashed" => "crash" \in uaf

\* C11 witness: a click on the crash button after the destruction has
\* dereferenced the released instance through the unchanged raw pointer.
C11_Witness ==
    /\ "crash" \in uaf
    /\ phase = "shown"
    /\ rawPtr = SDO
    /\ objState[SDO] = "freed"

\* C12: in WeakReferenceExample the handle is alive and resolves to the live
\* object while the owner is in scope, so the first print runs; once the owner's
\* scope has ended the object is released and the handle reports null, the
\* second print is never executed, and the example never touches a dead object.
C12_ExampleSafe ==
    /\ pc = "e_first" =>
          (IsAlive("ex") /\ WeakGet("ex") = WRO /\ objState[WRO] = "alive")
    /\ pc \in {"e_scope", "e_clear", "e_free", "e_second", "e_ret"} => "Hello" \in exOut
    /\ pc \in {"e_second", "e_ret"} =>
          (objState[WRO] = "freed" /\ deletes[WRO] = 1 /\ "ex" \in scope /\ ~IsAlive("ex"))
    /\ "This will not be printed" \notin exOut
    /\ "ex" \notin uaf

\* C12 witness: the example is about to return: it printed "Hello" only, the
\* object is released and the handle is still in scope.
C12_Witness ==
    /\ pc = "e_ret"
    /\ exOut = {"Hello"}
    /\ objState[WRO] = "freed"
    /\ "ex" \in scope

\* C13, state part: while the action is pending its own handle exists, is alive
\* and resolves to the instance, the instance lives and the process has not
\* crashed, whatever happened to the MainComponent and the other handles.
C13_PendingIntact ==
    timerState = "armed" =>
        /\ timerMs \in nextInt(MaxDelay)
        /\ "timer" \in scope
        /\ WeakGet("timer") = SDO
        /\ objState[SDO] = "alive"
        /\ phase # "crashed"

\* C13, step part: a pending action stays pending, its delay only running down,
\* until it fires; when it fires it takes the deleting branch; once fired it
\* runs to its end; and the steps of the action read no handle but its own.
C13_Step ==
    /\ timerState = "armed" =>
          /\ timerState' \in {"armed", "firing"}
          /\ timerState' = "armed" => (timerMs' = timerMs \/ (timerMs > 0 /\ timerMs' = 0))
          /\ timerState' = "firing" => (timerMs = 0 /\ pc' = "t_delete")
    /\ timerState = "firing" => timerState' \in {"firing", "done"}
    /\ (timerState = "firing" /\ pc' # pc) =>
          /\ phase' = phase
          /\ rawPtr' = rawPtr
          /\ \A h \in Handles \ {"timer"} :
                (h \in scope <=> h \in scope') /\ holder'[h] = holder[h]

\* C13: once scheduled, the destruction action cannot be cancelled by a click, a
\* handle operation or the destruction of the MainComponent, and it destroys the
\* instance when it fires.
C13_NoCancellation ==
    [](C13_PendingIntact) /\ [][C13_Step]_vars

\* C13 witness: the MainComponent, with both callbacks and the check button's
\* handle, was destroyed while the action was pending; the action has fired
\* nevertheless and released the instance.
C13_Witness ==
    /\ phase = "closed"
    /\ pc = "t_log"
    /\ objState[SDO] = "freed"
    /\ scope = {"timer"}

\* C14, step part: every run of the check button's callback ends in one step
\* that prints either the label or "Object has been deleted", dereferences no
\* dead object and does not crash the process.
C14_Step ==
    pc \in {"k_read", "k_absent"} =>
        \/ UNCHANGED <<pc, phase, checkOut, uaf>>
        \/ /\ pc' = "idle"
           /\ phase' = phase
           /\ uaf' = uaf
           /\ checkOut' = IF pc = "k_read" THEN NameMsg(ObjectName) ELSE DeletedMsg

\* C14: an access attempt through the weak handle has exactly two outcomes, the
\* label or the absent indicator, before and after destruction; the weak-handle
\* path never faults: a crash of the process is never due to it.
C14_TwoOutcomes ==
    /\ [](checkOut \in {NoOutput, NameMsg(ObjectName), DeletedMsg})
    /\ [](phase = "crashed" => (uaf = {"crash"} /\ checkOut # NameMsg(Garbage)))
    /\ [][C14_Step]_vars

\* C14 witness: an attempt after the destruction printed the absent indicator,
\* and a further attempt is again on the absent branch.
C14_Witness ==
    /\ pc = "k_absent"
    /\ checkOut = DeletedMsg
    /\ phase = "shown"

\* The positions of the message thread whose next step is a weak-handle
\* operation: a bind, a copy, a move, the end of a handle, a test or a resolve.
HandleOpPcs ==
    {"sdo_bind", "sdo_convert", "sdo_schedule", "sdo_ret", "sdo_tmp", "m_check_bind",
     "m_check_store",
     "m_ctor_end", "k_read", "k_absent", "e_bind", "e_first", "e_second", "e_ret"}

\* A step of the message thread that is a weak-handle operation, the dispatch of
\* the check button's callback (its if (weak)) included.
IsHandleOpStep ==
    \/ pc \in HandleOpPcs /\ pc' # pc
    \/ pc = "idle" /\ pc' \in {"k_read", "k_absent"}

\* C15, step part: a weak-handle operation leaves the owner recorded in every
\* allocated cell, the labels and the life of every instance unchanged, and,
\* unless it is the scheduling call itself, the pending action; and any step
\* that changes the owner of an allocated cell is the destruction of
\* masterReference, which sets it to null.
C15_Step ==
    /\ IsHandleOpStep =>
          /\ \A c \in Cells : cellRefs[c] > 0 => cellOwner'[c] = cellOwner[c]
          /\ objName' = objName
          /\ objState' = objState
          /\ clears' = clears
          /\ pc # "sdo_schedule" => (timerState' = timerState /\ timerMs' = timerMs)
    /\ \A c \in Cells :
          (cellRefs[c] > 0 /\ cellOwner'[c] # cellOwner[c]) =>
              (pc \in {"t_clear", "e_clear"} /\ cellOwner'[c] = Null)

\* C15: weak-handle operations only read the liveness cell; the destruction
\* protocol is its only writer.
C15_HandlesOnlyRead ==
    [][C15_Step]_vars

\* C15 witness: with the action still pending and its delay not yet elapsed, the
\* check button has resolved its handle and printed the label, and is about to
\* resolve it again.
C15_Witness ==
    /\ pc = "k_read"
    /\ checkOut = NameMsg(ObjectName)
    /\ timerState = "armed"
    /\ timerMs > 0
    /\ cellOwner[holder["check"]] = SDO

\* The holders of cell c: the handles that reference it and the masters that do.
HoldersOf(c) ==
    Cardinality({h \in scope : holder[h] = c}) + Cardinality({o \in Objects : master[o] = c})

\* C16: a cell is allocated for exactly as long as a handle or a master
\* references it, so every existing handle reads an allocated cell, whether or
\* not the instance or the other handles still exist; handles that do not exist
\* hold nothing; and after the scheduled action has run and its own handle is
\* gone, the check button's handle still references its allocated, invalidated
\* cell and reports not-alive.
C16_CellOutlivesInstance ==
    /\ \A c \in Cells : cellRefs[c] = HoldersOf(c)
    /\ \A h \in scope : holder[h] # NoCell => cellRefs[holder[h]] >= 1
    /\ \A h \in Handles \ scope : holder[h] = NoCell
    /\ (timerState = "done" /\ "check" \in scope) =>
          /\ "timer" \notin scope
          /\ holder["check"] # NoCell
          /\ cellRefs[holder["check"]] = 1
          /\ cellOwner[holder["check"]] = Null
          /\ ~IsAlive("check")

\* C16 witness: the instance is released and the timer's handle destroyed; the
\* check button is testing its handle, the last holder of the cell.
C16_Witness ==
    /\ timerState = "done"
    /\ pc = "k_absent"
    /\ scope = {"check"}
    /\ cellRefs[holder["check"]] = 1
    /\ objState[SDO] = "freed"

\* The steps of the MainComponent constructor after new SelfDestructingObject ()
\* has returned.
C17_SetupPcs ==
    {"m_setName", "m_crash", "m_check_bind", "m_check_store", "m_ctor_end"}

\* C17: between the return of the instance's constructor and the end of the
\* MainComponent constructor the timer stays armed and its callback cannot be
\* dispatched, even when the delay has already expired: the label is written to
\* a live instance, the raw pointer captured and the weak handle bound while the
\* instance is alive and undeleted.
C17_SetupOnLiveInstance ==
    /\ "ctor" \notin uaf
    /\ pc \in C17_SetupPcs =>
          /\ phase = "constructing"
          /\ timerState = "armed"
          /\ ~ENABLED Timer_fire
          /\ objState[SDO] = "alive"
          /\ deletes[SDO] = 0
          /\ clears[SDO] = 0
          /\ deletedLog = 0
    /\ phase = "constructing" => timerState \notin {"firing", "done"}
    /\ pc \in C17_SetupPcs \ {"m_setName"} => objName[SDO] = ObjectName
    /\ pc \in {"m_check_bind", "m_check_store", "m_ctor_end"} => rawPtr = SDO
    /\ pc = "m_check_store" => (IsAlive("checkTmp") /\ WeakGet("checkTmp") = SDO)

\* C17 witness: the drawn delay has expired, and the constructor has written the
\* label, captured the raw pointer and bound the check button's handle.
C17_Witness ==
    /\ pc = "m_check_store"
    /\ TimerDue
    /\ objName[SDO] = ObjectName
    /\ rawPtr = SDO
    /\ WeakGet("checkTmp") = SDO

\* Every emission of the diagnostic is made by the timer callback, after this
\* same run of the callback deleted and released the instance, and is the first.
C18_Step ==
    deletedLog' # deletedLog =>
        /\ pc = "t_log"
        /\ timerState = "firing"
        /\ objState[SDO] = "freed"
        /\ deletes[SDO] = 1
        /\ deletedLog = 0
        /\ deletedLog' = 1

\* C18: "Deleted object" is printed at most once, only by the scheduled action
\* and only after that run of the action has destroyed the instance; it is not
\* printed while the instance is alive or being destroyed, the run of the action
\* never reaches the print without having deleted, and once the action has run
\* the diagnostic has been printed exactly once.
C18_DeletedLogTiedToDestruction ==
    /\ [][C18_Step]_vars
    /\ [](deletedLog \in {0, 1})
    /\ [](objState[SDO] # "freed" => deletedLog = 0)
    /\ [](pc = "t_log" => (deletes[SDO] = 1 /\ objState[SDO] = "freed"))
    /\ [](timerState = "done" => deletedLog = 1)

\* C18 witness: the callback has deleted the instance and just printed the
\* diagnostic.
C18_Witness ==
    /\ pc = "t_end"
    /\ timerState = "firing"
    /\ deletedLog = 1
    /\ deletes[SDO] = 1
    /\ objState[SDO] = "freed"

\* The constructor can start the timer with a delay of d milliseconds.
C19_CanDraw(d) ==
    ENABLED (SDO_callAfterDelay /\ timerMs' = d)

\* C19 as stated: the delay of a pending timer lies in the closed range
\* 0..MaxDelay, and the constructor can draw every value of it, MaxDelay included.
C19_Original ==
    /\ timerState = "armed" => timerMs \in 0..MaxDelay
    /\ pc = "sdo_schedule" => \A d \in 0..MaxDelay : C19_CanDraw(d)

\* C19 amended: the delay of a pending timer lies in the half-open range
\* [0, MaxDelay), that is 0..MaxDelay - 1; the constructor can draw every value
\* of that range, and can draw neither MaxDelay nor a negative value.
C19_DelayRange ==
    /\ timerState = "armed" => timerMs \in 0..(MaxDelay - 1)
    /\ timerMs < MaxDelay
    /\ pc = "sdo_schedule" =>
          /\ \A d \in 0..(MaxDelay - 1) : C19_CanDraw(d)
          /\ ~C19_CanDraw(MaxDelay)
          /\ ~C19_CanDraw(-1)

\* C19 witness: the constructor has started the timer with the greatest delay
\* that can be drawn, one less than MaxDelay.
C19_Witness ==
    /\ pc = "sdo_ret"
    /\ timerState = "armed"
    /\ timerMs = MaxDelay - 1

=============================================================================
